---- MODULE Spec2Model ----
(***************************************************************************)
(* WriteBatchWithIndex (utilities/write_batch_with_index) as a state       *)
(* machine: the record log with its save points, the ordered index of      *)
(* WriteBatchIndexEntry, obsolete_offsets, the batch iterator              *)
(* (WBWIIteratorImpl) and the merged iterator (BaseDeltaIterator).         *)
(*                                                                         *)
(* The log is kept as the sequence of its records; byte offsets are        *)
(* computed from the sizes of the encoded records, so that an offset kept  *)
(* in the index or in obsolete_offsets can go stale exactly as in the      *)
(* program.  Keys and values are one byte long.  Assertions are modelled   *)
(* as compiled out (NDEBUG), the build in which the code after them runs.  *)
(***************************************************************************)
EXTENDS Integers, Sequences, FiniteSets, TLC

\* ------------------------------------------------------------------ bounds
MaxKey == 2          \* user keys of Spec are 1..MaxKey
MaxRecords == 3      \* Spec appends at most this many records, all told
MaxSavePoints == 1   \* Spec keeps at most this many save points
MaxIterKey == 3      \* user keys of SpecIter are 1..MaxIterKey
MaxIterRecords == 2  \* SpecIter appends at most this many records, all told
ColumnIdBits == 2    \* width of a column id (a uint32_t, scaled down)
MaxIllegalSteps == 1 \* Next/Prev calls on a not-valid iterator between two seeks
MaxPointRecords == 2 \* SpecPoint appends at most this many records, all told
CapBytes == 17       \* the max_bytes of a capped batch of SpecPoint: header and a put
MaxStatusBase == 1   \* SpecStatus reads through stores of at most this many keys
MaxColumnRecords == 2 \* SpecColumns appends at most this many records, all told

\* ------------------------------------------------------- program constants
kHeader == 12        \* WriteBatchInternal::kHeader: 8-byte sequence, 4-byte count

Keys == 1..MaxKey
IterKeys == 1..MaxIterKey
CFs == {0, 1}        \* column family ids: the default one and another
ColumnIdModulus == 2 ^ ColumnIdBits  \* column ids wrap around at this value

Garbage == 0 - 1     \* what a read at a stale position yields

KeyTags == {"Put", "Delete", "SingleDelete", "Merge", "DeleteRange"}
ValueTags == {"Put", "Merge", "DeleteRange"}

\* A record of the log, decoded, with the byte offset it starts at.  A
\* DeleteRange keeps its end key as value, a Delete and a SingleDelete have
\* the empty value 0, a LogData record has no column and no key.
Record(tag, cf, key, value, off) ==
  [tag |-> tag, cf |-> cf, key |-> key, value |-> value, off |-> off]

\* Length of a varint32.
VarintLength(v) ==
  IF v < 128 THEN 1
  ELSE IF v < 16384 THEN 2
  ELSE IF v < 2097152 THEN 3
  ELSE IF v < 268435456 THEN 4 ELSE 5

\* Bytes before the key's first byte in an encoded record: the tag, the
\* column id (only when it is not 0) and the key's length prefix.
KeyStart(r) == 1 + (IF r.cf # 0 THEN VarintLength(r.cf) ELSE 0) + 1

\* Encoded size of a record (keys, values and blobs are one byte long).
RecordSize(r) ==
  IF r.tag = "LogData" THEN 3
  ELSE KeyStart(r) + 1 + (IF r.tag \in ValueTags THEN 2 ELSE 0)

\* write_batch.GetDataSize()
GetDataSize(recs) ==
  IF recs = <<>> THEN kHeader
  ELSE recs[Len(recs)].off + RecordSize(recs[Len(recs)])

\* The record that starts at byte offset off, 0 when none does.
RecordAt(recs, off) ==
  LET S == {i \in 1..Len(recs) : recs[i].off = off}
  IN IF S = {} THEN 0 ELSE CHOOSE i \in S : TRUE

\* The user key the slice (key_offset, key_size) of the log holds.
KeyAtOffset(recs, key_offset) ==
  LET S == {i \in 1..Len(recs) :
              recs[i].tag \in KeyTags /\ recs[i].off + KeyStart(recs[i]) = key_offset}
  IN IF S = {} THEN Garbage ELSE recs[CHOOSE i \in S : TRUE].key

\* ------------------------------------------------- comparator and index
\* The user comparator of every column: bytewise order of one-byte keys.
CompareKey(a, b) == IF a < b THEN 0 - 1 ELSE IF a > b THEN 1 ELSE 0

\* WriteBatchIndexEntry(offset, column_family, key_offset, key_size)
IndexEntry(o, c, ko, ks) ==
  [offset |-> o, column_family |-> c, key_offset |-> ko, key_size |-> ks]

\* The search entries WBWIIteratorImpl builds: kFlagMin of a column, or a
\* search key in a column.
MinProbe(c) == [flag |-> "min", column_family |-> c, key |-> 0]
KeyProbe(c, k) == [flag |-> "key", column_family |-> c, key |-> k]

\* WriteBatchEntryComparator of an index entry against a search entry:
\* by column, then the search entry of kFlagMin is below every entry of its
\* column, then by the user key the entry's slice of the log holds.
CompareEntryProbe(recs, e, p) ==
  IF e.column_family # p.column_family
  THEN (IF e.column_family < p.column_family THEN 0 - 1 ELSE 1)
  ELSE IF p.flag = "min" THEN 1
  ELSE CompareKey(KeyAtOffset(recs, e.key_offset), p.key)

\* WriteBatchEntryComparator of two index entries, by (column, user key).
CompareEntries(recs, e1, e2) ==
  IF e1.column_family # e2.column_family
  THEN (IF e1.column_family < e2.column_family THEN 0 - 1 ELSE 1)
  ELSE CompareKey(KeyAtOffset(recs, e1.key_offset),
                  KeyAtOffset(recs, e2.key_offset))

\* WriteBatchEntryIndex::Insert: the index is an ordered multiset, a new
\* entry goes behind the entries that compare equal to it.
IndexInsert(recs, idx, e) ==
  LET n == Cardinality({i \in 1..Len(idx) : CompareEntries(recs, idx[i], e) <= 0})
  IN SubSeq(idx, 1, n) \o <<e>> \o SubSeq(idx, n + 1, Len(idx))

\* Positions of the index iterator: 1..Len(idx), and 0 when it is not valid.
\* First entry >= the search entry.
IndexSeek(recs, idx, p) ==
  LET S == {i \in 1..Len(idx) : CompareEntryProbe(recs, idx[i], p) >= 0}
  IN IF S = {} THEN 0 ELSE CHOOSE i \in S : \A j \in S : i <= j

\* Last entry <= the search entry.
IndexSeekForPrev(recs, idx, p) ==
  LET S == {i \in 1..Len(idx) : CompareEntryProbe(recs, idx[i], p) <= 0}
  IN IF S = {} THEN 0 ELSE CHOOSE i \in S : \A j \in S : i >= j

IndexSeekToFirst(idx) == IF Len(idx) = 0 THEN 0 ELSE 1
IndexSeekToLast(idx) == Len(idx)

\* Next() and Prev() of the index iterator.  On an iterator that is not
\* valid they are undefined; ub is the position such a call leaves.
IndexNext(idx, pos, ub) ==
  IF pos = 0 THEN ub ELSE IF pos = Len(idx) THEN 0 ELSE pos + 1
IndexPrev(idx, pos, ub) ==
  IF pos = 0 THEN ub ELSE pos - 1

\* ------------------------------------------ WBWIIteratorImpl (batch iterator)
WBWIValid(idx, cf, pos) == pos # 0 /\ idx[pos].column_family = cf

WBWISeekToFirst(recs, idx, cf) == IndexSeek(recs, idx, MinProbe(cf))

WBWISeekToLast(recs, idx, cf) ==
  LET pos == IndexSeek(recs, idx, MinProbe((cf + 1) % ColumnIdModulus))
  IN IF pos = 0 THEN IndexSeekToLast(idx) ELSE IndexPrev(idx, pos, 0)

WBWISeek(recs, idx, cf, key) == IndexSeek(recs, idx, KeyProbe(cf, key))

WBWISeekForPrev(recs, idx, cf, key) ==
  IndexSeekForPrev(recs, idx, KeyProbe(cf, key))

\* ReadableWriteBatch::GetEntryFromDataOffset followed by the mapping of the
\* tag to a WriteType: the record that starts at the offset, or garbage when
\* the offset is not the start of a record of the log.
GetEntryFromDataOffset(recs, off) ==
  LET i == RecordAt(recs, off)
  IN IF i = 0
     THEN [type |-> "Garbage", key |-> Garbage, value |-> Garbage]
     ELSE [type |-> recs[i].tag, key |-> recs[i].key, value |-> recs[i].value]

\* WBWIIteratorImpl::Entry
Entry(recs, idx, pos) == GetEntryFromDataOffset(recs, idx[pos].offset)

\* ------------------------------------------------ WriteBatchWithIndex::Rep
\* What UpdateExistingEntryWithCfId, AddOrUpdateIndex and ReBuildIndex work
\* on: the index, obsolete_offsets and last_entry_offset.
IndexState(idx, obs, leo) ==
  [index |-> idx, obsolete_offsets |-> obs, last_entry_offset |-> leo]

\* Variants of UpdateExistingEntryWithCfId that the claims must tell from
\* it: one that never finds the key's entry, and one that records the old
\* offset as obsolete but leaves the entry pointing at it.
UpdateNever(recs, st, ow, cf, key) == [updated |-> FALSE, st |-> st]
UpdateKeepsOldOffset(recs, st, ow, cf, key) ==
  LET pos == WBWISeek(recs, st.index, cf, key)
  IN IF ow /\ WBWIValid(st.index, cf, pos)
          /\ CompareKey(key, Entry(recs, st.index, pos).key) = 0
     THEN [updated |-> TRUE,
           st |-> IndexState(st.index,
                             Append(st.obsolete_offsets, st.index[pos].offset),
                             st.last_entry_offset)]
     ELSE [updated |-> FALSE, st |-> st]

\* A further variant: the entry is moved to the new record, and the new
\* record's offset is the one recorded as obsolete.
UpdateObsoletesNewOffset(recs, st, ow, cf, key) ==
  LET pos == WBWISeek(recs, st.index, cf, key)
  IN IF ow /\ WBWIValid(st.index, cf, pos)
          /\ CompareKey(key, Entry(recs, st.index, pos).key) = 0
     THEN [updated |-> TRUE,
           st |-> IndexState(
                    [st.index EXCEPT ![pos].offset = st.last_entry_offset],
                    Append(st.obsolete_offsets, st.last_entry_offset),
                    st.last_entry_offset)]
     ELSE [updated |-> FALSE, st |-> st]

\* Rep::UpdateExistingEntryWithCfId: in overwrite mode, the entry of the key
\* is made to point at the record at last_entry_offset and its old offset
\* is pushed on obsolete_offsets.
UpdateExistingEntryWithCfId(recs, st, ow, cf, key) ==
  LET pos == WBWISeek(recs, st.index, cf, key)
  IN IF ~ow THEN [updated |-> FALSE, st |-> st]
     ELSE IF ~WBWIValid(st.index, cf, pos) THEN [updated |-> FALSE, st |-> st]
     ELSE IF CompareKey(key, Entry(recs, st.index, pos).key) # 0
          THEN [updated |-> FALSE, st |-> st]
     ELSE [updated |-> TRUE,
           st |-> IndexState(
                    [st.index EXCEPT ![pos].offset = st.last_entry_offset],
                    Append(st.obsolete_offsets, st.index[pos].offset),
                    st.last_entry_offset)]

\* Rep::AddNewEntry: a new index entry for the record at last_entry_offset,
\* its key slice found by ReadKeyFromWriteBatchEntry.
AddNewEntry(recs, st, cf) ==
  LET key_offset == st.last_entry_offset + 1
                      + (IF cf # 0 THEN VarintLength(cf) ELSE 0) + 1
  IN IndexState(
       IndexInsert(recs, st.index,
                   IndexEntry(st.last_entry_offset, cf, key_offset, 1)),
       st.obsolete_offsets, st.last_entry_offset)

\* Rep::AddOrUpdateIndex (both overloads)
AddOrUpdateIndex(recs, st, ow, cf, key) ==
  LET u == UpdateExistingEntryWithCfId(recs, st, ow, cf, key)
  IN IF u.updated THEN u.st ELSE AddNewEntry(recs, u.st, cf)

\* Rep::ClearIndex: a new empty index and arena; obsolete_offsets is not
\* touched.
ClearIndex(st) == IndexState(<<>>, st.obsolete_offsets, 0)

\* The loop of Rep::ReBuildIndex from the i-th record on.  The switch has
\* the tags of Put, Delete, SingleDelete and Merge and of the records
\* without a key; a DeleteRange record falls to its default.
RECURSIVE ReBuildLoop(_, _, _, _, _)
ReBuildLoop(recs, i, st, found, ow) ==
  IF i > Len(recs) THEN [s |-> "OK", st |-> st, found |-> found]
  ELSE LET r == recs[i]
           at == IndexState(st.index, st.obsolete_offsets, r.off)
       IN IF r.tag \in {"Put", "Delete", "SingleDelete", "Merge"}
          THEN LET u == UpdateExistingEntryWithCfId(recs, at, ow, r.cf, r.key)
               IN ReBuildLoop(recs, i + 1,
                              IF u.updated THEN u.st ELSE AddNewEntry(recs, u.st, r.cf),
                              found + 1, ow)
          ELSE IF r.tag = "LogData"
          THEN ReBuildLoop(recs, i + 1, at, found, ow)
          ELSE [s |-> "Corruption", st |-> at, found |-> found]

\* Rep::ReBuildIndex
ReBuildIndex(recs, cnt, st, ow) ==
  LET cleared == ClearIndex(st)
  IN IF cnt = 0 THEN [s |-> "OK", st |-> cleared]
     ELSE LET l == ReBuildLoop(recs, 1, cleared, 0, ow)
          IN IF l.s = "OK" /\ l.found # cnt
             THEN [s |-> "Corruption", st |-> l.st]
             ELSE [s |-> l.s, st |-> l.st]

\* The loop of WriteBatchWithIndex::Collapse from the i-th record on; obs is
\* the sorted obsolete_offsets still to be met, kept the collapsed buffer.
\* obsolete_offsets.front() of an empty vector is undefined: ubDrop is the
\* set of offsets such a read compares equal to.
RECURSIVE CollapseLoop(_, _, _, _, _, _)
CollapseLoop(recs, i, obs, kept, cnt, ubDrop) ==
  IF i > Len(recs) THEN [rep |-> kept, count |-> cnt, obsolete_offsets |-> obs]
  ELSE LET off == recs[i].off
           front_matches == IF obs # <<>> THEN Head(obs) = off ELSE off \in ubDrop
       IN IF front_matches
          THEN CollapseLoop(recs, i + 1, IF obs # <<>> THEN Tail(obs) ELSE obs,
                            kept, cnt, ubDrop)
          ELSE CollapseLoop(recs, i + 1, obs,
                            Append(kept, [recs[i] EXCEPT !.off = GetDataSize(kept)]),
                            IF recs[i].tag \in {"Put", "Delete", "SingleDelete", "Merge"}
                            THEN cnt + 1 ELSE cnt,
                            ubDrop)

\* ---------------------------------------------------------- point lookup
\* The last position, from pos on, of the batch iterator's run of entries
\* whose record has the key (pos itself is one of them).
RECURSIVE LastOfKey(_, _, _, _, _)
LastOfKey(recs, idx, cf, key, pos) ==
  LET nxt == IndexNext(idx, pos, 0)
  IN IF WBWIValid(idx, cf, nxt) /\ CompareKey(Entry(recs, idx, nxt).key, key) = 0
     THEN LastOfKey(recs, idx, cf, key, nxt)
     ELSE pos

\* The scan of WriteBatchWithIndexInternal::GetFromBatch from the newest
\* entry of the key (pos) down to the oldest (first).
RECURSIVE GetFromBatchScan(_, _, _, _, _)
GetFromBatchScan(recs, idx, pos, first, operands) ==
  LET e == Entry(recs, idx, pos)
  IN IF e.type = "Put"
     THEN [kind |-> "Found", value |-> e.value, operands |-> operands]
     ELSE IF e.type \in {"Delete", "SingleDelete"}
     THEN [kind |-> "Deleted", value |-> 0, operands |-> operands]
     ELSE IF e.type = "Merge"
     THEN IF pos = first
          THEN [kind |-> "MergeInProgress", value |-> 0,
                operands |-> Append(operands, e.value)]
          ELSE GetFromBatchScan(recs, idx, pos - 1, first, Append(operands, e.value))
     ELSE [kind |-> "Error", value |-> 0, operands |-> operands]

\* WriteBatchWithIndexInternal::GetFromBatch
GetFromBatch(recs, idx, cf, key) ==
  LET first == WBWISeek(recs, idx, cf, key)
  IN IF ~WBWIValid(idx, cf, first)
        \/ CompareKey(Entry(recs, idx, first).key, key) # 0
     THEN [kind |-> "NotFound", value |-> 0, operands |-> <<>>]
     ELSE GetFromBatchScan(recs, idx, LastOfKey(recs, idx, cf, key, first),
                           first, <<>>)

\* The entries a batch iterator of the column yields from pos to the end.
RECURSIVE WBWIScanFrom(_, _, _, _)
WBWIScanFrom(recs, idx, cf, pos) ==
  IF ~WBWIValid(idx, cf, pos) THEN <<>>
  ELSE <<Entry(recs, idx, pos)>> \o WBWIScanFrom(recs, idx, cf, IndexNext(idx, pos, 0))

\* SeekToFirst, then Next until not valid.
WBWIScan(recs, idx, cf) == WBWIScanFrom(recs, idx, cf, WBWISeekToFirst(recs, idx, cf))

\* What a reader of the batch sees: get_from_batch of every (column, key)
\* and the full scan of every column.
ReadView(recs, idx) ==
  [get |-> [c \in CFs, k \in Keys |-> GetFromBatch(recs, idx, c, k)],
   scan |-> [c \in CFs |-> WBWIScan(recs, idx, c)]]

\* ------------------------------------------------------------------ state
VARIABLES
  overwrite_key,      \* Rep::overwrite_key, set at construction
  allow_dup_merge_,   \* WriteBatchWithIndex::allow_dup_merge_
  rep,                \* the records of write_batch.rep_ behind its header
  count,              \* the record count in the header of write_batch.rep_
  save_points,        \* the save point stack of write_batch: (size, count)
  index,              \* Rep::entry_index, in the comparator's order
  obsolete_offsets,   \* Rep::obsolete_offsets
  last_entry_offset,  \* Rep::last_entry_offset
  collapsed,          \* Collapse has rewritten the log under the index
  last_op,            \* the operation called last
  status,             \* what it returned
  history,            \* the mutations issued so far, while only_mutations
  only_mutations,     \* no rollback and no collapse has changed the batch
  sp_views,           \* the read view at each SetSavePoint still on the stack
  appended,           \* the number of records appended since construction
  base,               \* the keys of the store's iterator, ascending
  iter,               \* the merged iterator, when one is open
  scan,               \* the positions seen since SeekToFirst, by Next alone
  trip,               \* progress of a seek, step, step back round trip
  tainted             \* since the last seek: the number of calls of Next or Prev
                      \* on the iterator while not valid, and whether one moved
                      \* an underlying iterator that was not valid
VARIABLES
  max_bytes,          \* write_batch.max_bytes_, 0 when the log has no size cap
  got,                \* what the last GetFromBatchAndDB returned, and its store reads
  base_status,        \* base_iterator_->status(), the store iterator's status
  wbwi                \* the batch iterator NewIterator gave, when one is open

batchVars == <<overwrite_key, allow_dup_merge_, rep, count, save_points, index,
               obsolete_offsets, last_entry_offset, collapsed, last_op, status,
               history, only_mutations, sp_views, appended>>
iterVars == <<base, iter, scan, trip, tainted>>
pointVars == <<max_bytes, got, base_status, wbwi>>
vars == <<batchVars, iterVars, pointVars>>

NoIter == [live |-> FALSE, cf |-> 0, forward_ |-> TRUE, current_at_base_ |-> TRUE,
           equal_keys_ |-> FALSE, status_ |-> "OK", base_pos |-> 0, delta_pos |-> 0]
NoScan == [on |-> FALSE, seq |-> <<>>]
Untainted == [illegal |-> 0, undefined |-> FALSE, ever |-> FALSE]
\* A seek puts the iterator where Next and Prev are defined again; that an
\* illegal call was ever made stays on record.
AfterSeek(t) == [Untainted EXCEPT !.ever = t.ever]
NoGot == [called |-> FALSE, cf |-> 0, key |-> 0, merge_operator |-> FALSE,
          db_fails |-> FALSE, status |-> "", value |-> 0, db_gets |-> 0]
NoTrip == [stage |-> 0, op |-> "", key |-> 0, value |-> 0, mid_valid |-> FALSE]
NoWBWI == [live |-> FALSE, column_family_id_ |-> 0, pos |-> 0, op |-> ""]

\* Rep::Rep and WriteBatchWithIndex::WriteBatchWithIndex
InitRep ==
  /\ overwrite_key \in BOOLEAN
  /\ rep = <<>>
  /\ count = 0
  /\ save_points = <<>>
  /\ index = <<>>
  /\ obsolete_offsets = <<>>
  /\ last_entry_offset = 0
  /\ collapsed = FALSE
  /\ last_op = "New"
  /\ status = "OK"
  /\ history = <<>>
  /\ only_mutations = TRUE
  /\ sp_views = <<>>
  /\ appended = 0
  /\ got = NoGot

\* A batch without a size cap that rejects duplicate merges.
InitBatch == InitRep /\ allow_dup_merge_ = FALSE /\ max_bytes = 0

InitNoIter ==
  /\ iter = NoIter
  /\ scan = NoScan
  /\ trip = NoTrip
  /\ tainted = Untainted
  /\ wbwi = NoWBWI

Init == InitBatch /\ base = <<>> /\ base_status = "OK" /\ InitNoIter

\* The batch may be mutated: no iterator is open on it, and Collapse has not
\* left the index pointing into a log that is gone.
Mutable == ~iter.live /\ ~collapsed

\* An append to write_batch that leaves the log as recs fails, with
\* MemoryLimit and the log as it was, when the log has a size cap and recs
\* is beyond it.
AppendFails(recs) == max_bytes # 0 /\ GetDataSize(recs) > max_bytes

\* Variant of IndexAfterAppend that the claims must tell from it: the index
\* is updated whether the append succeeded or not.
IndexAfterAnyAppend(ok, recs, st, ow, cf, key) == AddOrUpdateIndex(recs, st, ow, cf, key)

\* What a mutation does to the index after the append returned:
\* AddOrUpdateIndex when the status is ok, nothing otherwise.
IndexAfterAppend(ok, recs, st, ow, cf, key) ==
  IF ok THEN AddOrUpdateIndex(recs, st, ow, cf, key) ELSE st

\* Variant of MergeStatus that the claims must tell from it: a duplicate is
\* rejected whether allow_dup_merge_ is set or not.
MergeStatusWithoutFlag(size_before, size_after) ==
  IF size_before # size_after THEN "NotSupported" ELSE "OK"

\* What Merge returns once the index is updated: NotSupported when
\* obsolete_offsets grew and allow_dup_merge_ is not set.
MergeStatus(size_before, size_after) ==
  IF ~allow_dup_merge_ /\ size_before # size_after THEN "NotSupported" ELSE "OK"

\* Put, Delete, SingleDelete and DeleteRange (both overloads of each):
\* SetLastEntryOffset, the append to write_batch and, when that succeeded,
\* AddOrUpdateIndex.
Mutate(tag, cf, key, value) ==
  LET leo == GetDataSize(rep)
      recs == Append(rep, Record(tag, cf, key, value, leo))
      ok == ~AppendFails(recs)
      st == IndexAfterAppend(ok, recs, IndexState(index, obsolete_offsets, leo),
                             overwrite_key, cf, key)
  IN /\ Mutable
     /\ rep' = IF ok THEN recs ELSE rep
     /\ count' = IF ok THEN count + 1 ELSE count
     /\ index' = st.index
     /\ obsolete_offsets' = st.obsolete_offsets
     /\ last_entry_offset' = st.last_entry_offset
     /\ last_op' = tag
     /\ status' = IF ~ok THEN "MemoryLimit"
                  ELSE IF tag = "Merge"
                  THEN MergeStatus(Len(obsolete_offsets), Len(st.obsolete_offsets))
                  ELSE "OK"
     /\ history' = IF only_mutations /\ ok
                   THEN Append(history, Record(tag, cf, key, value, leo)) ELSE history
     /\ appended' = appended + 1
     /\ UNCHANGED <<overwrite_key, allow_dup_merge_, save_points, collapsed,
                    only_mutations, sp_views, iterVars, pointVars>>

Put(cf, key, value) == Mutate("Put", cf, key, value)
Delete(cf, key) == Mutate("Delete", cf, key, 0)
SingleDelete(cf, key) == Mutate("SingleDelete", cf, key, 0)
DeleteRange(cf, begin_key, end_key) == Mutate("DeleteRange", cf, begin_key, end_key)
\* Merge (both overloads): as the others, and NotSupported when
\* obsolete_offsets grew and allow_dup_merge_ is not set.
Merge(cf, key, value) == Mutate("Merge", cf, key, value)

\* PutLogData: the blob goes to the log, the index is not touched.
PutLogData(blob) ==
  LET recs == Append(rep, Record("LogData", 0, 0, blob, GetDataSize(rep)))
  IN
  /\ Mutable
  /\ rep' = IF AppendFails(recs) THEN rep ELSE recs
  /\ last_op' = "PutLogData"
  /\ status' = IF AppendFails(recs) THEN "MemoryLimit" ELSE "OK"
  /\ appended' = appended + 1
  /\ UNCHANGED <<overwrite_key, allow_dup_merge_, count, save_points, index,
                 obsolete_offsets, last_entry_offset, collapsed, history,
                 only_mutations, sp_views, iterVars, pointVars>>

\* WriteBatchWithIndex::Clear: write_batch.Clear() and ClearIndex().
Clear ==
  LET st == ClearIndex(IndexState(index, obsolete_offsets, last_entry_offset))
  IN /\ ~iter.live
     /\ rep' = <<>>
     /\ count' = 0
     /\ save_points' = <<>>
     /\ index' = st.index
     /\ obsolete_offsets' = st.obsolete_offsets
     /\ last_entry_offset' = st.last_entry_offset
     /\ collapsed' = FALSE
     /\ last_op' = "Clear"
     /\ status' = "OK"
     /\ history' = <<>>
     /\ only_mutations' = TRUE
     /\ sp_views' = <<>>
     /\ UNCHANGED <<overwrite_key, allow_dup_merge_, appended, iterVars, pointVars>>

\* WriteBatchWithIndex::SetSavePoint
SetSavePoint ==
  /\ Mutable
  /\ save_points' = Append(save_points, [size |-> GetDataSize(rep), count |-> count])
  /\ sp_views' = Append(sp_views, ReadView(rep, index))
  /\ last_op' = "SetSavePoint"
  /\ status' = "OK"
  /\ UNCHANGED <<overwrite_key, allow_dup_merge_, rep, count, index,
                 obsolete_offsets, last_entry_offset, collapsed, history,
                 only_mutations, appended, iterVars, pointVars>>

\* What WriteBatch::RollbackToSavePoint leaves of the log: the records
\* below the size of the save point.
TruncateTo(recs, size) ==
  SubSeq(recs, 1, Cardinality({i \in 1..Len(recs) : recs[i].off < size}))

\* Variant of IndexAfterRollback that the claims must tell from it: the
\* index is rebuilt and obsolete_offsets cleared whatever the log returned.
IndexAfterAnyRollback(ok, recs, cnt, st, ow) ==
  LET r == ReBuildIndex(recs, cnt, st, ow)
  IN [s |-> IF ok THEN r.s ELSE "NotFound",
      st |-> [r.st EXCEPT !.obsolete_offsets = <<>>]]

\* Variant of IndexAfterRollback that the claims must tell from it: the
\* index is left as it was when the log was truncated.
IndexKeptAfterRollback(ok, recs, cnt, st, ow) ==
  [s |-> IF ok THEN "OK" ELSE "NotFound",
   st |-> IF ok THEN [st EXCEPT !.obsolete_offsets = <<>>] ELSE st]

\* What RollbackToSavePoint does once the log's rollback returned: when it
\* succeeded, ReBuildIndex and obsolete_offsets.clear(); the log's error
\* and nothing else when it failed.
IndexAfterRollback(ok, recs, cnt, st, ow) ==
  IF ok
  THEN LET r == ReBuildIndex(recs, cnt, st, ow)
       IN [s |-> r.s, st |-> [r.st EXCEPT !.obsolete_offsets = <<>>]]
  ELSE [s |-> "NotFound", st |-> st]

\* WriteBatchWithIndex::RollbackToSavePoint: the log's rollback, which
\* fails with NotFound when no save point is set, then IndexAfterRollback.
RollbackToSavePoint ==
  LET ok == save_points # <<>>
      sp == save_points[Len(save_points)]
      recs == IF ok THEN TruncateTo(rep, sp.size) ELSE rep
      cnt == IF ok /\ sp.size # GetDataSize(rep) THEN sp.count ELSE count
      r == IndexAfterRollback(ok, recs, cnt,
                              IndexState(index, obsolete_offsets, last_entry_offset),
                              overwrite_key)
  IN /\ Mutable
     /\ last_op' = "RollbackToSavePoint"
     /\ rep' = recs
     /\ count' = cnt
     /\ index' = r.st.index
     /\ obsolete_offsets' = r.st.obsolete_offsets
     /\ last_entry_offset' = r.st.last_entry_offset
     /\ status' = r.s
     /\ IF ok
        THEN /\ save_points' = SubSeq(save_points, 1, Len(save_points) - 1)
             /\ sp_views' = SubSeq(sp_views, 1, Len(sp_views) - 1)
             /\ history' = <<>>
             /\ only_mutations' = FALSE
        ELSE UNCHANGED <<save_points, sp_views, history, only_mutations>>
     /\ UNCHANGED <<overwrite_key, allow_dup_merge_, collapsed, appended, iterVars,
                    pointVars>>

\* WriteBatchWithIndex::PopSavePoint
PopSavePoint ==
  /\ Mutable
  /\ last_op' = "PopSavePoint"
  /\ IF save_points = <<>>
     THEN status' = "NotFound" /\ UNCHANGED <<save_points, sp_views>>
     ELSE /\ status' = "OK"
          /\ save_points' = SubSeq(save_points, 1, Len(save_points) - 1)
          /\ sp_views' = SubSeq(sp_views, 1, Len(sp_views) - 1)
  /\ UNCHANGED <<overwrite_key, allow_dup_merge_, rep, count, index,
                 obsolete_offsets, last_entry_offset, collapsed, history,
                 only_mutations, appended, iterVars, pointVars>>

\* WriteBatchWithIndex::Collapse.  ubDrop settles the reads of
\* obsolete_offsets.front() made once the vector is empty.
Collapse(ubDrop) ==
  /\ Mutable
  /\ last_op' = "Collapse"
  /\ IF Len(obsolete_offsets) = 0
     THEN /\ ubDrop = {}
          /\ status' = "false"
          /\ UNCHANGED <<rep, count, obsolete_offsets, collapsed, history,
                         only_mutations>>
     ELSE LET c == CollapseLoop(rep, 1, SortSeq(obsolete_offsets, <), <<>>, 0, ubDrop)
          IN /\ rep' = c.rep
             /\ count' = c.count
             /\ obsolete_offsets' = c.obsolete_offsets
             /\ collapsed' = TRUE
             /\ status' = "true"
             /\ history' = <<>>
             /\ only_mutations' = FALSE
  /\ UNCHANGED <<overwrite_key, allow_dup_merge_, save_points, index,
                 last_entry_offset, sp_views, appended, iterVars, pointVars>>

\* The offsets of the records of the log: what a read of the front of the
\* empty obsolete_offsets may compare equal to.
LogOffsets == {rep[i].off : i \in 1..Len(rep)}

\* The value of the next record: the i-th record appended carries the value
\* i, which tells every record apart from the others.
NextValue == appended + 1

\* The (column, key) pairs Spec mutates: every key of the default column, and
\* the first key of the other column.
Targets == {t \in CFs \X Keys : t[1] = 0 \/ t[2] = 1}

Next ==
  \/ \E t \in Targets : appended < MaxRecords /\ Put(t[1], t[2], NextValue)
  \/ \E t \in Targets : appended < MaxRecords /\ Delete(t[1], t[2])
  \/ \E t \in Targets : appended < MaxRecords /\ SingleDelete(t[1], t[2])
  \/ \E t \in Targets : appended < MaxRecords /\ DeleteRange(t[1], t[2], NextValue)
  \/ \E t \in Targets : appended < MaxRecords /\ Merge(t[1], t[2], NextValue)
  \/ appended < MaxRecords /\ PutLogData(NextValue)
  \/ Clear
  \/ Len(save_points) < MaxSavePoints /\ SetSavePoint
  \/ RollbackToSavePoint
  \/ PopSavePoint
  \/ \E ubDrop \in SUBSET LogOffsets : Collapse(ubDrop)

Spec == Init /\ [][Next]_vars

\* ==================================================== the merged iterator
\* The store's iterator: base is the ascending sequence of its keys, a
\* position is 1..Len(base), or 0 when the iterator is not valid.
BaseValue(k) == 100 + k
\* A store iterator whose status is not ok is not valid wherever it is sent.
BaseAt(pos) == IF base_status = "OK" THEN pos ELSE 0
BaseSeekToFirst == BaseAt(IF Len(base) = 0 THEN 0 ELSE 1)
BaseSeekToLast == BaseAt(Len(base))
BaseSeek(k) ==
  LET S == {i \in 1..Len(base) : base[i] >= k}
  IN BaseAt(IF S = {} THEN 0 ELSE CHOOSE i \in S : \A j \in S : i <= j)
BaseSeekForPrev(k) ==
  LET S == {i \in 1..Len(base) : base[i] <= k}
  IN BaseAt(IF S = {} THEN 0 ELSE CHOOSE i \in S : \A j \in S : i >= j)
\* Next() and Prev() of the store's iterator; ub is where a call on an
\* iterator that is not valid leaves it.
BaseNext(pos, ub) ==
  BaseAt(IF pos = 0 THEN ub ELSE IF pos = Len(base) THEN 0 ELSE pos + 1)
BasePrev(pos, ub) == BaseAt(IF pos = 0 THEN ub ELSE pos - 1)

\* BaseDeltaIterator::BaseValid, DeltaValid, Valid
BaseValid(it) == it.base_pos # 0
DeltaValid(it) == WBWIValid(index, it.cf, it.delta_pos)
Valid(it) == IF it.current_at_base_ THEN BaseValid(it) ELSE DeltaValid(it)

\* delta_iterator_->Entry() and base_iterator_->key()
DeltaEntry(it) == Entry(rep, index, it.delta_pos)
BaseKey(it) == base[it.base_pos]

\* WBWIIteratorImpl::status: always ok.
WBWIStatus == "OK"

\* Variant of IterStatus that the claims must tell from it: the iterator's
\* own status_ is not looked at.
StatusOfSidesOnly(it) == IF base_status # "OK" THEN base_status ELSE WBWIStatus

\* BaseDeltaIterator::status
IterStatus(it) ==
  IF it.status_ # "OK" THEN it.status_
  ELSE IF base_status # "OK" THEN base_status
  ELSE WBWIStatus

\* BaseDeltaIterator::key and value
key(it) == IF it.current_at_base_ THEN BaseKey(it) ELSE DeltaEntry(it).key
value(it) == IF it.current_at_base_ THEN BaseValue(BaseKey(it)) ELSE DeltaEntry(it).value

\* BaseDeltaIterator::AdvanceDelta and AdvanceBase
AdvanceDelta(it, ub) ==
  [it EXCEPT !.delta_pos = IF it.forward_ THEN IndexNext(index, it.delta_pos, ub)
                           ELSE IndexPrev(index, it.delta_pos, ub)]
AdvanceBase(it, ub) ==
  [it EXCEPT !.base_pos = IF it.forward_ THEN BaseNext(it.base_pos, ub)
                          ELSE BasePrev(it.base_pos, ub)]

\* Variant of UpdateCurrent that the claims must tell from it: on equal
\* keys the base is shown.
RECURSIVE UpdateCurrentBaseOnEqual(_)
UpdateCurrentBaseOnEqual(it) ==
  LET it0 == [it EXCEPT !.equal_keys_ = FALSE]
  IN IF ~BaseValid(it0)
     THEN IF ~DeltaValid(it0) THEN it0
          ELSE IF DeltaEntry(it0).type \in {"Delete", "SingleDelete"}
          THEN UpdateCurrentBaseOnEqual(AdvanceDelta(it0, 0))
          ELSE [it0 EXCEPT !.current_at_base_ = FALSE]
     ELSE IF ~DeltaValid(it0) THEN [it0 EXCEPT !.current_at_base_ = TRUE]
     ELSE LET compare == (IF it0.forward_ THEN 1 ELSE 0 - 1)
                           * CompareKey(DeltaEntry(it0).key, BaseKey(it0))
          IN IF compare < 0
             THEN IF DeltaEntry(it0).type \notin {"Delete", "SingleDelete"}
                  THEN [it0 EXCEPT !.current_at_base_ = FALSE]
                  ELSE UpdateCurrentBaseOnEqual(AdvanceDelta(it0, 0))
             ELSE [it0 EXCEPT !.current_at_base_ = TRUE]

\* BaseDeltaIterator::UpdateCurrent
RECURSIVE UpdateCurrent(_)
UpdateCurrent(it) ==
  LET it0 == [it EXCEPT !.equal_keys_ = FALSE]
  IN IF ~BaseValid(it0)
     THEN IF ~DeltaValid(it0) THEN it0
          ELSE IF DeltaEntry(it0).type \in {"Delete", "SingleDelete"}
          THEN UpdateCurrent(AdvanceDelta(it0, 0))
          ELSE [it0 EXCEPT !.current_at_base_ = FALSE]
     ELSE IF ~DeltaValid(it0) THEN [it0 EXCEPT !.current_at_base_ = TRUE]
     ELSE LET compare == (IF it0.forward_ THEN 1 ELSE 0 - 1)
                           * CompareKey(DeltaEntry(it0).key, BaseKey(it0))
              it1 == [it0 EXCEPT !.equal_keys_ = (compare = 0)]
          IN IF compare <= 0
             THEN IF DeltaEntry(it0).type \notin {"Delete", "SingleDelete"}
                  THEN [it1 EXCEPT !.current_at_base_ = FALSE]
                  ELSE UpdateCurrent(IF it1.equal_keys_
                                     THEN AdvanceBase(AdvanceDelta(it1, 0), 0)
                                     ELSE AdvanceDelta(it1, 0))
             ELSE [it0 EXCEPT !.current_at_base_ = TRUE]

\* Variants of Advance and of the direction change of Prev that the claims
\* must tell from them: one that leaves the base behind on equal keys, and
\* one that turns around without moving either iterator.
AdvanceDeltaOnEqual(it, ubB, ubD) ==
  UpdateCurrent(IF it.equal_keys_ \/ ~it.current_at_base_
                THEN AdvanceDelta(it, ubD) ELSE AdvanceBase(it, ubB))
TurnWithoutMoving(it) == [it EXCEPT !.forward_ = FALSE, !.equal_keys_ = FALSE]

\* BaseDeltaIterator::Advance.  ubB and ubD are where Next() or Prev() of a
\* base or index iterator that is not valid leaves it.
Advance(it, ubB, ubD) ==
  UpdateCurrent(IF it.equal_keys_ THEN AdvanceDelta(AdvanceBase(it, ubB), ubD)
                ELSE IF it.current_at_base_ THEN AdvanceBase(it, ubB)
                ELSE AdvanceDelta(it, ubD))

\* Advance moves an underlying iterator that is not valid.
AdvanceUndefined(it) ==
  ~it.equal_keys_ /\ (IF it.current_at_base_ THEN it.base_pos = 0 ELSE it.delta_pos = 0)

\* equal_keys_ as the direction changes of Next and Prev leave it.
KeysEqual(it) ==
  DeltaValid(it) /\ BaseValid(it) /\ CompareKey(DeltaEntry(it).key, BaseKey(it)) = 0

\* The direction change of BaseDeltaIterator::Next (from backward).
NextChangeDirection(it) ==
  LET a == [it EXCEPT !.forward_ = TRUE, !.equal_keys_ = FALSE]
      b == IF ~BaseValid(a) THEN [a EXCEPT !.base_pos = BaseSeekToFirst]
           ELSE IF ~DeltaValid(a)
           THEN [a EXCEPT !.delta_pos = WBWISeekToFirst(rep, index, a.cf)]
           ELSE IF a.current_at_base_ THEN AdvanceDelta(a, 0)
           ELSE AdvanceBase(a, 0)
  IN [b EXCEPT !.equal_keys_ = KeysEqual(b)]

\* The direction change of BaseDeltaIterator::Prev (from forward).
PrevChangeDirection(it) ==
  LET a == [it EXCEPT !.forward_ = FALSE, !.equal_keys_ = FALSE]
      b == IF ~BaseValid(a) THEN [a EXCEPT !.base_pos = BaseSeekToLast]
           ELSE IF ~DeltaValid(a)
           THEN [a EXCEPT !.delta_pos = WBWISeekToLast(rep, index, a.cf)]
           ELSE IF a.current_at_base_ THEN AdvanceDelta(a, 0)
           ELSE AdvanceBase(a, 0)
  IN [b EXCEPT !.equal_keys_ = KeysEqual(b)]

\* The position a caller reads: key and value, when the iterator is valid.
Shown(it) == IF Valid(it) THEN <<[key |-> key(it), value |-> value(it)]>> ELSE <<>>

\* A round trip starts at the valid position a seek reached.
StartTrip(op, it) ==
  IF Valid(it)
  THEN [stage |-> 1, op |-> op, key |-> key(it), value |-> value(it), mid_valid |-> FALSE]
  ELSE NoTrip

\* Variant of NewIteratorWithBase that the claims must tell from it: an
\* iterator in either mode.
NewIteratorInAnyMode(cf) ==
  /\ ~iter.live
  /\ last_op' = "NewIteratorWithBase"
  /\ status' = "OK"
  /\ iter' = [live |-> TRUE, cf |-> cf, forward_ |-> TRUE,
              current_at_base_ |-> TRUE, equal_keys_ |-> FALSE,
              status_ |-> "OK", base_pos |-> 0, delta_pos |-> 0]
  /\ UNCHANGED <<overwrite_key, allow_dup_merge_, rep, count, save_points, index,
                 obsolete_offsets, last_entry_offset, collapsed, history,
                 only_mutations, sp_views, appended, base, scan, trip, tainted,
                 pointVars>>

\* WriteBatchWithIndex::NewIteratorWithBase (both overloads): no iterator
\* for a batch that is not in overwrite mode.
NewIteratorWithBase(cf) ==
  /\ ~iter.live
  /\ last_op' = "NewIteratorWithBase"
  /\ IF ~overwrite_key
     THEN status' = "nullptr" /\ iter' = iter
     ELSE /\ status' = "OK"
          /\ iter' = [live |-> TRUE, cf |-> cf, forward_ |-> TRUE,
                      current_at_base_ |-> TRUE, equal_keys_ |-> FALSE,
                      status_ |-> "OK", base_pos |-> 0, delta_pos |-> 0]
  /\ UNCHANGED <<overwrite_key, allow_dup_merge_, rep, count, save_points, index,
                 obsolete_offsets, last_entry_offset, collapsed, history,
                 only_mutations, sp_views, appended, base, scan, trip, tainted,
                 pointVars>>

\* BaseDeltaIterator::SeekToFirst
SeekToFirst ==
  LET it == UpdateCurrent([iter EXCEPT !.forward_ = TRUE,
                                       !.base_pos = BaseSeekToFirst,
                                       !.delta_pos = WBWISeekToFirst(rep, index, iter.cf)])
  IN /\ iter.live
     /\ iter' = it
     /\ scan' = [on |-> TRUE, seq |-> Shown(it)]
     /\ trip' = NoTrip
     /\ tainted' = AfterSeek(tainted)
     /\ UNCHANGED <<batchVars, base, pointVars>>

\* Variant of SeekToLastOf that the claims must tell from it: the direction
\* is left as it was.
SeekToLastKeepingDirection(it) ==
  UpdateCurrent([it EXCEPT !.base_pos = BaseSeekToLast,
                           !.delta_pos = WBWISeekToLast(rep, index, it.cf)])

\* The body of BaseDeltaIterator::SeekToLast, on the iterator it.
SeekToLastOf(it) ==
  UpdateCurrent([it EXCEPT !.forward_ = FALSE,
                           !.base_pos = BaseSeekToLast,
                           !.delta_pos = WBWISeekToLast(rep, index, it.cf)])

\* BaseDeltaIterator::SeekToLast
SeekToLast ==
  LET it == SeekToLastOf(iter)
  IN /\ iter.live
     /\ iter' = it
     /\ scan' = NoScan
     /\ trip' = NoTrip
     /\ tainted' = AfterSeek(tainted)
     /\ UNCHANGED <<batchVars, base, pointVars>>

\* BaseDeltaIterator::Seek
Seek(k) ==
  LET it == UpdateCurrent([iter EXCEPT !.forward_ = TRUE,
                                       !.base_pos = BaseSeek(k),
                                       !.delta_pos = WBWISeek(rep, index, iter.cf, k)])
  IN /\ iter.live
     /\ iter' = it
     /\ scan' = NoScan
     /\ trip' = StartTrip("Seek", it)
     /\ tainted' = AfterSeek(tainted)
     /\ UNCHANGED <<batchVars, base, pointVars>>

\* Variant of SeekForPrev that the claims must tell from it: the batch
\* iterator is sent to the first entry at or after the key.
SeekForPrevDeltaAhead(k) ==
  LET it == UpdateCurrent([iter EXCEPT !.forward_ = FALSE,
                                       !.base_pos = BaseSeekForPrev(k),
                                       !.delta_pos = WBWISeek(rep, index, iter.cf, k)])
  IN /\ iter.live
     /\ iter' = it
     /\ scan' = NoScan
     /\ trip' = StartTrip("SeekForPrev", it)
     /\ tainted' = AfterSeek(tainted)
     /\ UNCHANGED <<batchVars, base, pointVars>>

\* BaseDeltaIterator::SeekForPrev
SeekForPrev(k) ==
  LET it == UpdateCurrent([iter EXCEPT !.forward_ = FALSE,
                                       !.base_pos = BaseSeekForPrev(k),
                                       !.delta_pos = WBWISeekForPrev(rep, index, iter.cf, k)])
  IN /\ iter.live
     /\ iter' = it
     /\ scan' = NoScan
     /\ trip' = StartTrip("SeekForPrev", it)
     /\ tainted' = AfterSeek(tainted)
     /\ UNCHANGED <<batchVars, base, pointVars>>

\* What a step that was called on the iterator it0 leaves of tainted.
Taint(it0, turned) ==
  IF Valid(it0) THEN tainted
  ELSE [illegal |-> tainted.illegal + 1,
        undefined |-> tainted.undefined \/ AdvanceUndefined(turned),
        ever |-> TRUE]

\* The round trip after a step: first is the seek the step continues,
\* second the seek whose round trip it closes.
StepTrip(first, second, it) ==
  IF trip.stage = 1 /\ trip.op = first
  THEN [trip EXCEPT !.stage = 2, !.mid_valid = Valid(it)]
  ELSE IF trip.stage = 2 /\ trip.op = second THEN [trip EXCEPT !.stage = 3]
  ELSE NoTrip

\* BaseDeltaIterator::Next
IterNext(ubB, ubD) ==
  LET it1 == IF ~Valid(iter) THEN [iter EXCEPT !.status_ = "NotSupported"] ELSE iter
      it2 == IF ~it1.forward_ THEN NextChangeDirection(it1) ELSE it1
      it == Advance(it2, ubB, ubD)
  IN /\ iter.live
     /\ Valid(iter) \/ tainted.illegal < MaxIllegalSteps
     /\ (ubB # 0 \/ ubD # 0) => AdvanceUndefined(it2)
     /\ ubB # 0 => it2.current_at_base_
     /\ ubD # 0 => ~it2.current_at_base_
     /\ iter' = it
     /\ scan' = IF scan.on /\ Valid(iter)
                THEN [scan EXCEPT !.seq = scan.seq \o Shown(it)] ELSE NoScan
     /\ trip' = StepTrip("Seek", "SeekForPrev", it)
     /\ tainted' = Taint(iter, it2)
     /\ UNCHANGED <<batchVars, base, pointVars>>

\* BaseDeltaIterator::Prev
IterPrev(ubB, ubD) ==
  LET it1 == IF ~Valid(iter) THEN [iter EXCEPT !.status_ = "NotSupported"] ELSE iter
      it2 == IF it1.forward_ THEN PrevChangeDirection(it1) ELSE it1
      it == Advance(it2, ubB, ubD)
  IN /\ iter.live
     /\ Valid(iter) \/ tainted.illegal < MaxIllegalSteps
     /\ (ubB # 0 \/ ubD # 0) => AdvanceUndefined(it2)
     /\ ubB # 0 => it2.current_at_base_
     /\ ubD # 0 => ~it2.current_at_base_
     /\ iter' = it
     /\ scan' = NoScan
     /\ trip' = StepTrip("SeekForPrev", "Seek", it)
     /\ tainted' = Taint(iter, it2)
     /\ UNCHANGED <<batchVars, base, pointVars>>

\* The stores SpecIter reads through: every ascending sequence of user keys.
Ascending(S) == SortSeq(CHOOSE q \in [1..Cardinality(S) -> S] :
                          \A i, j \in 1..Cardinality(S) : i # j => q[i] # q[j],
                        <)
Bases == {Ascending(S) : S \in SUBSET IterKeys}

\* The (column, key) pairs SpecIter puts and deletes: every key of the
\* default column and the first key of the other column.  The merged
\* iterator tells a SingleDelete from a Delete, and a Merge or a DeleteRange
\* from a Put, by nothing but the value it shows; SpecIter issues these on
\* one key of the default column, which the store may hold or not.
IterTargets == {t \in CFs \X IterKeys : t[1] = 0 \/ t[2] = 1}
IterOtherTargets == {t \in IterTargets : t[1] = 0 /\ t[2] = 2}

InitIter == InitBatch /\ base \in Bases /\ base_status = "OK" /\ InitNoIter

NextIter ==
  \/ \E t \in IterTargets : appended < MaxIterRecords /\ Put(t[1], t[2], NextValue)
  \/ \E t \in IterTargets : appended < MaxIterRecords /\ Delete(t[1], t[2])
  \/ \E t \in IterOtherTargets : appended < MaxIterRecords /\ SingleDelete(t[1], t[2])
  \/ \E t \in IterOtherTargets : appended < MaxIterRecords /\ DeleteRange(t[1], t[2], NextValue)
  \/ \E t \in IterOtherTargets : appended < MaxIterRecords /\ Merge(t[1], t[2], NextValue)
  \/ \E cf \in CFs : NewIteratorWithBase(cf)
  \/ SeekToFirst
  \/ SeekToLast
  \/ \E k \in IterKeys : Seek(k)
  \/ \E k \in IterKeys : SeekForPrev(k)
  \/ \E ubB \in 0..Len(base), ubD \in 0..Len(index) : IterNext(ubB, ubD)
  \/ \E ubB \in 0..Len(base), ubD \in 0..Len(index) : IterPrev(ubB, ubD)

SpecIter == InitIter /\ [][NextIter]_vars

\* The same operations on an overwrite-mode batch over a store whose
\* iterator may report an error.
BaseStatuses == {"OK", "IOError"}
InitStatus ==
  /\ InitBatch /\ overwrite_key
  /\ base \in {b \in Bases : Len(b) <= MaxStatusBase}
  /\ base_status \in BaseStatuses
  /\ InitNoIter
SpecStatus == InitStatus /\ [][NextIter]_vars

\* ====================================================== the batch iterator
\* The column ids of a batch: every uint32_t, the largest included.
ColumnIds == 0..(ColumnIdModulus - 1)
MaxColumnId == ColumnIdModulus - 1

\* WriteBatchWithIndex::NewIterator (both overloads)
NewIterator(cf) ==
  /\ ~wbwi.live /\ ~collapsed
  /\ wbwi' = [live |-> TRUE, column_family_id_ |-> cf, pos |-> 0, op |-> "NewIterator"]
  /\ UNCHANGED <<batchVars, iterVars, max_bytes, got, base_status>>

\* A move of the open batch iterator to pos.
WBWIMove(op, pos) ==
  /\ wbwi.live
  /\ wbwi' = [wbwi EXCEPT !.pos = pos, !.op = op]
  /\ UNCHANGED <<batchVars, iterVars, max_bytes, got, base_status>>

\* WBWIIteratorImpl::SeekToFirst, SeekToLast, Next and Prev; Next and Prev
\* are called where the index iterator is valid.
WBWIIterSeekToFirst ==
  WBWIMove("SeekToFirst", WBWISeekToFirst(rep, index, wbwi.column_family_id_))
WBWIIterSeekToLast ==
  WBWIMove("SeekToLast", WBWISeekToLast(rep, index, wbwi.column_family_id_))
WBWIIterNext == wbwi.pos # 0 /\ WBWIMove("Next", IndexNext(index, wbwi.pos, 0))
WBWIIterPrev == wbwi.pos # 0 /\ WBWIMove("Prev", IndexPrev(index, wbwi.pos, 0))

\* Batches of either mode with records in any column, then a batch
\* iterator on any column.
InitColumns == InitBatch /\ base = <<>> /\ base_status = "OK" /\ InitNoIter
NextColumns ==
  \/ \E t \in ColumnIds \X Keys :
       appended < MaxColumnRecords /\ ~wbwi.live /\ Put(t[1], t[2], NextValue)
  \/ \E t \in ColumnIds \X Keys :
       appended < MaxColumnRecords /\ ~wbwi.live /\ Delete(t[1], t[2])
  \/ \E cf \in ColumnIds : NewIterator(cf)
  \/ WBWIIterSeekToFirst
  \/ WBWIIterSeekToLast
  \/ WBWIIterNext
  \/ WBWIIterPrev
SpecColumns == InitColumns /\ [][NextColumns]_vars

\* ============================================= lookups through the store
\* db->Get of a key: the store holds the keys of base, each with its
\* BaseValue; db_fails makes the read fail.
DbGet(k, db_fails) ==
  IF db_fails THEN [s |-> "IOError", value |-> 0]
  ELSE IF \E i \in 1..Len(base) : base[i] = k
  THEN [s |-> "OK", value |-> BaseValue(k)]
  ELSE [s |-> "NotFound", value |-> 0]

\* The column's merge operator on one operand.  It tells the order of the
\* operands apart, as appending does.
MergeOperand(acc, operand) == acc * 10 + operand

\* MergeHelper::TimedFullMerge: the operator over the store's value, if
\* any, and the operands from the oldest to the newest.
RECURSIVE TimedFullMerge(_, _)
TimedFullMerge(existing, operands) ==
  IF operands = <<>> THEN existing
  ELSE TimedFullMerge(MergeOperand(existing, Head(operands)), Tail(operands))

\* MergeContext::GetOperands: the operands in the order they were issued;
\* GetFromBatch collects them from the newest to the oldest.
GetOperands(collected) ==
  [i \in 1..Len(collected) |-> collected[Len(collected) + 1 - i]]

\* Variants of GetFromBatchAndDB that the claims must tell from it: one
\* that goes to the store with the operands of an overwrite-mode batch,
\* and one that merges over no store value.
GetWithoutOverwriteCheck(cf, k, merge_operator, db_fails) ==
  LET b == GetFromBatch(rep, index, cf, k)
      d == DbGet(k, db_fails)
  IN IF b.kind = "Found" THEN [status |-> "OK", value |-> b.value, db_gets |-> 0]
     ELSE IF b.kind = "Deleted" THEN [status |-> "NotFound", value |-> 0, db_gets |-> 0]
     ELSE IF b.kind = "Error" THEN [status |-> "Error", value |-> 0, db_gets |-> 0]
     ELSE IF d.s \in {"OK", "NotFound"} /\ b.kind = "MergeInProgress"
     THEN IF merge_operator
          THEN [status |-> "OK", db_gets |-> 1,
                value |-> TimedFullMerge(d.value, GetOperands(b.operands))]
          ELSE [status |-> "InvalidArgument", value |-> d.value, db_gets |-> 1]
     ELSE [status |-> d.s, value |-> d.value, db_gets |-> 1]
GetIgnoringStoreValue(cf, k, merge_operator, db_fails) ==
  LET b == GetFromBatch(rep, index, cf, k)
      d == DbGet(k, db_fails)
  IN IF b.kind = "Found" THEN [status |-> "OK", value |-> b.value, db_gets |-> 0]
     ELSE IF b.kind = "Deleted" THEN [status |-> "NotFound", value |-> 0, db_gets |-> 0]
     ELSE IF b.kind = "Error" THEN [status |-> "Error", value |-> 0, db_gets |-> 0]
     ELSE IF b.kind = "MergeInProgress" /\ overwrite_key
     THEN [status |-> "MergeInProgress", value |-> 0, db_gets |-> 0]
     ELSE IF d.s \in {"OK", "NotFound"} /\ b.kind = "MergeInProgress"
     THEN IF merge_operator
          THEN [status |-> "OK", db_gets |-> 1,
                value |-> TimedFullMerge(0, GetOperands(b.operands))]
          ELSE [status |-> "InvalidArgument", value |-> d.value, db_gets |-> 1]
     ELSE [status |-> d.s, value |-> d.value, db_gets |-> 1]

\* Variant of GetFromBatchAndDB that the claims must tell from it: the
\* operands are merged whatever the store's read returned.
GetMergingAfterStoreError(cf, k, merge_operator, db_fails) ==
  LET b == GetFromBatch(rep, index, cf, k)
      d == DbGet(k, db_fails)
  IN IF b.kind = "Found" THEN [status |-> "OK", value |-> b.value, db_gets |-> 0]
     ELSE IF b.kind = "Deleted" THEN [status |-> "NotFound", value |-> 0, db_gets |-> 0]
     ELSE IF b.kind = "Error" THEN [status |-> "Error", value |-> 0, db_gets |-> 0]
     ELSE IF b.kind = "MergeInProgress" /\ overwrite_key
     THEN [status |-> "MergeInProgress", value |-> 0, db_gets |-> 0]
     ELSE IF b.kind = "MergeInProgress"
     THEN IF merge_operator
          THEN [status |-> "OK", db_gets |-> 1,
                value |-> TimedFullMerge(d.value, GetOperands(b.operands))]
          ELSE [status |-> "InvalidArgument", value |-> d.value, db_gets |-> 1]
     ELSE [status |-> d.s, value |-> d.value, db_gets |-> 1]

\* WriteBatchWithIndex::GetFromBatchAndDB (every overload): the status and
\* the value returned, and the number of reads of the store.
GetFromBatchAndDB(cf, k, merge_operator, db_fails) ==
  LET b == GetFromBatch(rep, index, cf, k)
      d == DbGet(k, db_fails)
  IN IF b.kind = "Found" THEN [status |-> "OK", value |-> b.value, db_gets |-> 0]
     ELSE IF b.kind = "Deleted" THEN [status |-> "NotFound", value |-> 0, db_gets |-> 0]
     ELSE IF b.kind = "Error" THEN [status |-> "Error", value |-> 0, db_gets |-> 0]
     ELSE IF b.kind = "MergeInProgress" /\ overwrite_key
     THEN [status |-> "MergeInProgress", value |-> 0, db_gets |-> 0]
     ELSE IF d.s \in {"OK", "NotFound"} /\ b.kind = "MergeInProgress"
     THEN IF merge_operator
          THEN [status |-> "OK", db_gets |-> 1,
                value |-> TimedFullMerge(d.value, GetOperands(b.operands))]
          ELSE [status |-> "InvalidArgument", value |-> d.value, db_gets |-> 1]
     ELSE [status |-> d.s, value |-> d.value, db_gets |-> 1]

\* A call of GetFromBatchAndDB.
Get(cf, k, merge_operator, db_fails) ==
  LET r == GetFromBatchAndDB(cf, k, merge_operator, db_fails)
  IN /\ ~iter.live /\ ~collapsed
     /\ got' = [called |-> TRUE, cf |-> cf, key |-> k,
                merge_operator |-> merge_operator, db_fails |-> db_fails,
                status |-> r.status, value |-> r.value, db_gets |-> r.db_gets]
     /\ UNCHANGED <<batchVars, iterVars, max_bytes, base_status, wbwi>>

\* The stores SpecPoint reads through.
Stores == {Ascending(S) : S \in SUBSET Keys}

\* A batch of either mode, with or without allow_dup_merge_ and a size cap,
\* over a store.
InitPoint ==
  /\ InitRep
  /\ allow_dup_merge_ \in BOOLEAN
  /\ max_bytes \in {0, CapBytes}
  /\ base \in Stores
  /\ base_status = "OK"
  /\ InitNoIter

\* SpecPoint builds a batch and then reads it.
Building == appended < MaxPointRecords /\ ~got.called

NextPoint ==
  \/ \E t \in Targets : Building /\ Put(t[1], t[2], NextValue)
  \/ \E t \in Targets : Building /\ Delete(t[1], t[2])
  \/ \E t \in Targets : Building /\ SingleDelete(t[1], t[2])
  \/ \E t \in Targets : Building /\ DeleteRange(t[1], t[2], NextValue)
  \/ \E t \in Targets : Building /\ Merge(t[1], t[2], NextValue)
  \/ \E t \in CFs \X Keys, merge_operator \in BOOLEAN, db_fails \in BOOLEAN :
       ~got.called /\ Get(t[1], t[2], merge_operator, db_fails)

SpecPoint == InitPoint /\ [][NextPoint]_vars

\* ================================================================= claims
KeyBearing(recs) == {i \in 1..Len(recs) : recs[i].tag \in KeyTags}
SeqRange(q) == {q[i] : i \in 1..Len(q)}
LastOf(q) == q[Len(q)]

\* C1 -- index coverage: where Collapse has not rewritten the log, the offset
\* of every key-bearing record of the log is referenced by exactly one index
\* entry or listed in obsolete_offsets, never both and never neither, and
\* obsolete_offsets lists only offsets of key-bearing records of the log.
C1_IndexCoverage ==
  ~collapsed =>
    /\ \A i \in KeyBearing(rep) :
         LET refs == Cardinality({j \in 1..Len(index) : index[j].offset = rep[i].off})
             obsolete == rep[i].off \in SeqRange(obsolete_offsets)
         IN (refs = 1 /\ ~obsolete) \/ (refs = 0 /\ obsolete)
    /\ \A o \in SeqRange(obsolete_offsets) :
         \E i \in KeyBearing(rep) : rep[i].off = o

\* C2 -- overwrite uniqueness: in overwrite mode, after any sequence of
\* mutations, clear and save-point operations, no two index entries have the
\* same column and the same user key.
C2_OverwriteUniqueness ==
  (overwrite_key /\ ~collapsed) =>
    \A i, j \in 1..Len(index) :
      (i # j /\ index[i].column_family = index[j].column_family)
        => KeyAtOffset(rep, index[i].key_offset) # KeyAtOffset(rep, index[j].key_offset)

\* C2 witness: an entry was updated in place and the index holds several
\* entries, after a rollback rebuilt it.
C2_Witness ==
  /\ overwrite_key /\ ~collapsed
  /\ Len(index) >= 2
  /\ Len(rep) > Len(index)
  /\ last_op = "RollbackToSavePoint" /\ status = "OK"

\* The mutations issued for a key of a column, oldest first.
IssuedFor(cf, k) ==
  LET Hit(r) == r.cf = cf /\ r.key = k IN SelectSeq(history, Hit)
\* The entries the batch iterator of a column shows for a key.
ShownFor(cf, k) ==
  LET Hit(e) == e.key = k IN SelectSeq(WBWIScan(rep, index, cf), Hit)

\* C3 -- in overwrite mode, after any sequence of mutations, the batch
\* iterator of a column shows exactly one entry for each mutated key (none
\* for a key never mutated), that entry decodes to the tag and the value of
\* the most recent mutation issued for the key, and every record issued is
\* still in the log.
C3_LatestObservable ==
  (overwrite_key /\ only_mutations) =>
    /\ \A cf \in CFs, k \in Keys :
         IF IssuedFor(cf, k) = <<>>
         THEN ShownFor(cf, k) = <<>>
         ELSE /\ Len(ShownFor(cf, k)) = 1
              /\ ShownFor(cf, k)[1].type = LastOf(IssuedFor(cf, k)).tag
              /\ ShownFor(cf, k)[1].value = LastOf(IssuedFor(cf, k)).value
    /\ \A n \in 1..Len(history) : history[n] \in SeqRange(rep)

\* C3 witness: a key was mutated more than once, its latest record is of
\* another type than its first, and the index holds another key as well.
C3_Witness ==
  /\ overwrite_key /\ only_mutations
  /\ \E cf \in CFs, k \in Keys :
       /\ Len(IssuedFor(cf, k)) >= 2
       /\ IssuedFor(cf, k)[1].tag # LastOf(IssuedFor(cf, k)).tag
       /\ Len(ShownFor(cf, k)) = 1
  /\ Len(index) >= 2

\* C7 -- rollback restores the read view: a rollback to a save point returns
\* OK and leaves get_from_batch of every (column, key) and the scan of every
\* column as they were when the save point was set.
C7_RollbackRestoresView ==
  [][(RollbackToSavePoint /\ save_points # <<>>)
       => (status' = "OK" /\ ReadView(rep', index') = sp_views[Len(sp_views)])]_vars

\* C8 -- collapse preservation: on an overwrite-mode batch with an obsolete
\* offset, get_from_batch of every (column, key) gives after Collapse what it
\* gave before.
C8_CollapsePreservesGet ==
  [][((\E ubDrop \in SUBSET LogOffsets : Collapse(ubDrop))
        /\ overwrite_key /\ Len(obsolete_offsets) > 0)
       => \A cf \in CFs, k \in Keys :
            GetFromBatch(rep', index', cf, k) = GetFromBatch(rep, index, cf, k)]_vars

\* C9 -- in overwrite mode, after Collapse the log holds one key-bearing
\* record per live index entry, no two of them of the same column and key,
\* its record count is the number of live index entries, and
\* obsolete_offsets is empty.  Stated for the runs of Collapse in which no
\* read of the front of the emptied obsolete_offsets compares equal.
C9_CollapseResult ==
  [][(Collapse({}) /\ overwrite_key) =>
       /\ Cardinality(KeyBearing(rep')) = Len(index')
       /\ \A i, j \in KeyBearing(rep') :
            (i # j) => (rep'[i].cf # rep'[j].cf \/ rep'[i].key # rep'[j].key)
       /\ count' = Len(index')
       /\ obsolete_offsets' = <<>>]_vars

\* C10 -- Clear leaves the batch as a newly constructed batch with the same
\* options: the log, the save points, the index and obsolete_offsets are
\* empty.
C10_ClearIsFresh ==
  last_op = "Clear" =>
    /\ rep = <<>> /\ count = 0 /\ save_points = <<>>
    /\ index = <<>> /\ last_entry_offset = 0
    /\ obsolete_offsets = <<>>

\* The keys the batch holds a record of, in a column, and the latest record
\* of a key, read from the log alone.
BatchKeys(cf) == {rep[i].key : i \in {j \in KeyBearing(rep) : rep[j].cf = cf}}
LatestRecord(cf, k) ==
  rep[CHOOSE i \in KeyBearing(rep) :
        /\ rep[i].cf = cf /\ rep[i].key = k
        /\ \A j \in KeyBearing(rep) : (rep[j].cf = cf /\ rep[j].key = k) => j <= i]
Tombstoned(cf) ==
  {k \in BatchKeys(cf) : LatestRecord(cf, k).tag \in {"Delete", "SingleDelete"}}
ScanKeys == [i \in 1..Len(scan.seq) |-> scan.seq[i].key]
ScanOver == iter.live /\ scan.on /\ ~Valid(iter)

\* C4 -- merged iterator completeness: a full forward scan (SeekToFirst, then
\* Next until not valid) visits the keys of the base and of the batch, less
\* the keys whose latest batch record is a Delete or a SingleDelete, each
\* once and in strictly increasing order.
C4_MergedCompleteness ==
  ScanOver =>
    ScanKeys = Ascending((SeqRange(base) \cup BatchKeys(iter.cf)) \ Tombstoned(iter.cf))

\* C4 witness: a scan is over that went over a base key the batch deletes
\* and a key held by both, and showed a key of the base alone as well.
C4_Witness ==
  /\ ScanOver
  /\ Len(scan.seq) >= 2
  /\ SeqRange(base) \ BatchKeys(iter.cf) # {}
  /\ Tombstoned(iter.cf) \cap SeqRange(base) # {}
  /\ (BatchKeys(iter.cf) \ Tombstoned(iter.cf)) \cap SeqRange(base) # {}

\* C5 -- delta shadows base: at a valid position of the merged iterator
\* whose key is in the base and in the batch, value() is the value of the
\* batch's latest record of the key and not the base's; at a position whose
\* key is only in the base, value() is the base's value.  Stated for the
\* runs in which no underlying iterator was moved while not valid.
C5_DeltaShadowsBase ==
  (iter.live /\ Valid(iter) /\ ~tainted.undefined /\ key(iter) \in SeqRange(base)) =>
    IF key(iter) \in BatchKeys(iter.cf)
    THEN /\ value(iter) = LatestRecord(iter.cf, key(iter)).value
         /\ value(iter) # BaseValue(key(iter))
    ELSE value(iter) = BaseValue(key(iter))

\* The merged iterator is back at the position its round trip started from.
BackAtStart == Valid(iter) /\ key(iter) = trip.key /\ value(iter) = trip.value

HoldsEntry(cf, k) ==
  \E i \in 1..Len(index) :
    index[i].column_family = cf /\ KeyAtOffset(rep, index[i].key_offset) = k
\* When Merge returns NotSupported by the specification.
DuplicateMerge(cf, k) == overwrite_key /\ ~allow_dup_merge_ /\ HoldsEntry(cf, k)

\* C11 as the specification states it -- duplicate-merge rejection: Merge
\* returns NotSupported exactly when the batch is in overwrite mode,
\* allow_dup_merge_ is not set and the index holds an entry of the column
\* and key when Merge is called.
C11_DuplicateMergeRejected ==
  [][\A t \in Targets :
       Merge(t[1], t[2], NextValue)
         => (status' = "NotSupported" <=> DuplicateMerge(t[1], t[2]))]_vars

\* C11 as the program has it -- the same, when the log takes the record: a
\* Merge that the size cap of the log refuses returns MemoryLimit, entry or
\* no entry.
C11_DuplicateMergeRejectedWhenAppended ==
  [][\A t \in Targets :
       (Merge(t[1], t[2], NextValue) /\ status' # "MemoryLimit")
         => (status' = "NotSupported" <=> DuplicateMerge(t[1], t[2]))]_vars

\* C11 witness: a Merge was rejected on a key whose entry pointed at a
\* record that is not a Merge.
C11_Witness ==
  /\ last_op = "Merge" /\ status = "NotSupported"
  /\ Len(rep) >= 2
  /\ rep[Len(rep) - 1].tag \in {"Put", "Delete", "SingleDelete", "DeleteRange"}
  /\ rep[Len(rep) - 1].key = rep[Len(rep)].key
  /\ rep[Len(rep) - 1].cf = rep[Len(rep)].cf

\* C12 -- a mutation that fails at the log layer returns the error and
\* leaves the log, the index entries with their offsets, and
\* obsolete_offsets as they were.
C12_FailedAppendKeepsIndex ==
  [][(\E t \in Targets :
        \/ Put(t[1], t[2], NextValue) \/ Delete(t[1], t[2])
        \/ SingleDelete(t[1], t[2]) \/ DeleteRange(t[1], t[2], NextValue)
        \/ Merge(t[1], t[2], NextValue))
     => \/ GetDataSize(rep') > GetDataSize(rep) /\ status' # "MemoryLimit"
        \/ /\ status' = "MemoryLimit"
           /\ rep' = rep /\ count' = count
           /\ index' = index /\ obsolete_offsets' = obsolete_offsets]_vars

\* C12 witness: a Merge failed at the size cap on an overwrite-mode batch
\* whose index holds an entry.
C12_Witness ==
  /\ last_op = "Merge" /\ status = "MemoryLimit"
  /\ overwrite_key /\ Len(index) = 1 /\ Len(rep) = 1

\* What get_from_batch gives for the key of the last GetFromBatchAndDB.
GotFromBatch == GetFromBatch(rep, index, got.cf, got.key)

\* C13 -- GetFromBatchAndDB reads the store exactly when the batch lookup
\* gives NotFound, or MergeInProgress in non-overwrite mode; Found returns
\* the batch value, Deleted returns NotFound, Error is passed on and
\* MergeInProgress in overwrite mode returns MergeInProgress.
C13_StoreOnlyWhenNeeded ==
  got.called =>
    /\ got.db_gets = (IF GotFromBatch.kind = "NotFound"
                         \/ (GotFromBatch.kind = "MergeInProgress" /\ ~overwrite_key)
                      THEN 1 ELSE 0)
    /\ GotFromBatch.kind = "Found"
         => (got.status = "OK" /\ got.value = GotFromBatch.value)
    /\ GotFromBatch.kind = "Deleted" => got.status = "NotFound"
    /\ GotFromBatch.kind = "Error" => got.status = "Error"
    /\ (GotFromBatch.kind = "MergeInProgress" /\ overwrite_key)
         => got.status = "MergeInProgress"

\* C13 witness: a Merge of an overwrite-mode batch was looked up over a
\* store that holds the key, and the store was not read.
C13_Witness ==
  /\ got.called /\ overwrite_key
  /\ GotFromBatch.kind = "MergeInProgress"
  /\ got.db_gets = 0
  /\ \E i \in 1..Len(base) : base[i] = got.key

\* The batch received merge(k, m1) then merge(k, m2) on the default column
\* and nothing else, the store holds k, and k was looked up with a merge
\* operator over a store that answers.
TwoMergesOverStore ==
  /\ got.called /\ got.cf = 0 /\ got.merge_operator /\ ~got.db_fails
  /\ \E i \in 1..Len(base) : base[i] = got.key
  /\ Len(rep) = 2
  /\ \A i \in 1..2 : rep[i].tag = "Merge" /\ rep[i].cf = 0 /\ rep[i].key = got.key
MergedOverStore ==
  /\ got.status = "OK"
  /\ got.value = TimedFullMerge(BaseValue(got.key), <<rep[1].value, rep[2].value>>)

\* C14 as the specification states it -- merge over store: in overwrite
\* mode, with the store holding v for k and the batch having received
\* merge(k, m1) then merge(k, m2), GetFromBatchAndDB(k) returns the merge
\* operator's result over (v, [m1, m2]).
C14_MergeOverStore == (TwoMergesOverStore /\ overwrite_key) => MergedOverStore

\* C14 as the program has it -- the result over (v, [m1, m2]) is returned
\* in non-overwrite mode; in overwrite mode GetFromBatchAndDB returns
\* MergeInProgress without reading the store.
C14_MergeOverStoreByMode ==
  TwoMergesOverStore =>
    IF overwrite_key
    THEN got.status = "MergeInProgress" /\ got.db_gets = 0
    ELSE MergedOverStore /\ got.db_gets = 1

\* C14 witness: the two merges were looked up over the store in
\* non-overwrite mode.
C14_Witness == TwoMergesOverStore /\ ~overwrite_key /\ MergedOverStore

\* C15 -- NewIteratorWithBase gives an iterator exactly on an overwrite-mode
\* batch: on a non-overwrite batch it returns none, for the default column
\* and for an explicit column alike; on an overwrite-mode batch it always
\* returns one, on the column asked for.
C15_MergedIteratorNeedsOverwrite ==
  [][\A cf \in CFs :
       NewIteratorWithBase(cf)
         => IF overwrite_key
            THEN status' = "OK" /\ iter'.live /\ iter'.cf = cf
            ELSE status' = "nullptr" /\ ~iter'.live]_vars

\* C15 witness: NewIteratorWithBase returned no iterator on a non-overwrite
\* batch that holds records of both columns.
C15_Witness ==
  /\ last_op = "NewIteratorWithBase" /\ status = "nullptr" /\ ~iter.live
  /\ ~overwrite_key
  /\ \A cf \in CFs : \E i \in 1..Len(rep) : rep[i].cf = cf

\* C16 -- Next() or Prev() on an iterator that is not valid makes status()
\* NotSupported; while no such call was made, status() is the store
\* iterator's status when that is not ok, and the batch iterator's status
\* otherwise.
C16_IteratorStatus ==
  [][/\ \A ubB \in 0..Len(base), ubD \in 0..Len(index) :
          ((IterNext(ubB, ubD) \/ IterPrev(ubB, ubD)) /\ ~Valid(iter))
            => IterStatus(iter') = "NotSupported"
     /\ (iter'.live /\ ~tainted'.ever)
          => IterStatus(iter') = (IF base_status' # "OK" THEN base_status'
                                  ELSE WBWIStatus)]_vars

\* C16 witness: Prev() was called on an iterator that had run off the end
\* of a store whose iterator reports no error, and status() is NotSupported.
C16_Witness ==
  /\ iter.live /\ tainted.illegal = 1 /\ ~iter.forward_
  /\ base_status = "OK" /\ base # <<>>
  /\ IterStatus(iter) = "NotSupported"

\* Rep::ReBuildIndex run once, and run again on what it left.
RebuiltOnce ==
  ReBuildIndex(rep, count, IndexState(index, obsolete_offsets, last_entry_offset),
               overwrite_key)
RebuiltTwice == ReBuildIndex(rep, count, RebuiltOnce.st, overwrite_key)

\* C17 -- rebuild idempotence: ReBuildIndex run twice in a row leaves the
\* index entries with their offsets, and obsolete_offsets, as one run does.
C17_RebuildIdempotent ==
  /\ RebuiltTwice.s = RebuiltOnce.s
  /\ RebuiltTwice.st.index = RebuiltOnce.st.index
  /\ RebuiltTwice.st.obsolete_offsets = RebuiltOnce.st.obsolete_offsets

MergedKeys == (SeqRange(base) \cup BatchKeys(iter.cf)) \ Tombstoned(iter.cf)
\* The iterator it is at the key of S picked by Least or by Greatest, or is
\* not valid when S is empty.
AtLeast(it, S) ==
  IF S = {} THEN ~Valid(it)
  ELSE Valid(it) /\ key(it) = CHOOSE x \in S : \A y \in S : x <= y
AtGreatest(it, S) ==
  IF S = {} THEN ~Valid(it)
  ELSE Valid(it) /\ key(it) = CHOOSE x \in S : \A y \in S : x >= y

\* C19 -- merged seek: Seek(k) leaves the iterator at the smallest key of
\* the merged view that is at least k, SeekForPrev(k) at the largest that is
\* at most k; each leaves it not valid when the view has no such key.
C19_MergedSeek ==
  [][\A k \in IterKeys :
       /\ Seek(k) => AtLeast(iter', {x \in MergedKeys : x >= k})
       /\ SeekForPrev(k) => AtGreatest(iter', {x \in MergedKeys : x <= k})]_vars

\* C19 witness: SeekForPrev went past a key the batch deletes from the
\* store to a smaller key, with a larger key in the view.
C19_Witness ==
  /\ iter.live /\ Valid(iter) /\ ~iter.forward_
  /\ trip.stage = 1 /\ trip.op = "SeekForPrev"
  /\ \E d \in Tombstoned(iter.cf) \cap SeqRange(base) :
       key(iter) < d /\ \E x \in MergedKeys : x > d

\* The positions of the index that hold an entry of the column.
ColumnPositions(cf) == {i \in 1..Len(index) : index[i].column_family = cf}

\* C20 -- for every column id, the largest included, and an index that
\* spans several columns, SeekToLast of the batch iterator leaves it on the
\* last entry of its own column when the column has one and not valid when
\* it has none; the iterator is never valid on an entry of another column.
C20_SeekToLastOwnColumn ==
  wbwi.live =>
    LET cf == wbwi.column_family_id_
        own == ColumnPositions(cf)
        valid == WBWIValid(index, cf, wbwi.pos)
    IN /\ valid => wbwi.pos \in own
       /\ wbwi.op = "SeekToLast" =>
            IF own = {} THEN ~valid
            ELSE valid /\ \A i \in own : i <= wbwi.pos

\* Every key-bearing record of recs has an index entry of its column and key.
EveryKeyIndexed(recs, idx) ==
  \A i \in KeyBearing(recs) :
    \E j \in 1..Len(idx) :
      /\ idx[j].column_family = recs[i].cf
      /\ KeyAtOffset(recs, idx[j].key_offset) = recs[i].key

\* C21 -- ReBuildIndex indexes every key-bearing record (Put, Delete,
\* SingleDelete, Merge, DeleteRange), skips LogData, and returns Corruption
\* for nothing but an unknown tag, a malformed record or a wrong count: on a
\* log that the batch's own mutation calls wrote, the rebuild of a rollback
\* returns OK with every key-bearing record indexed.
C21_RebuildIndexesOwnLog ==
  [][(RollbackToSavePoint /\ save_points # <<>>)
       => (status' = "OK" /\ EveryKeyIndexed(rep', index'))]_vars

\* C22 -- a RollbackToSavePoint that fails at the log, no save point being
\* set, returns the log's error and leaves the index entries and
\* obsolete_offsets as they were; SetSavePoint and PopSavePoint never change
\* the index or obsolete_offsets.
C22_SavePointFrame ==
  [][/\ (RollbackToSavePoint /\ save_points = <<>>)
          => /\ status' = "NotFound"
             /\ index' = index /\ obsolete_offsets' = obsolete_offsets
     /\ (SetSavePoint \/ PopSavePoint)
          => (index' = index /\ obsolete_offsets' = obsolete_offsets)]_vars

\* C22 witness: a rollback found no save point on a batch with a
\* DeleteRange entry in the index and a superseded offset.
C22_Witness ==
  /\ last_op = "RollbackToSavePoint" /\ status = "NotFound"
  /\ obsolete_offsets # <<>>
  /\ \E i \in 1..Len(rep) : rep[i].tag = "DeleteRange"
  /\ EveryKeyIndexed(rep, index)

\* C23 -- the status_ an illegal Next or Prev set is cleared by the seeks:
\* after SeekToFirst, SeekToLast, Seek or SeekForPrev, status() is the store
\* iterator's status when that is not ok and the batch iterator's
\* otherwise, whatever was called before.
C23_SeekClearsStatus ==
  [][(SeekToFirst \/ SeekToLast \/ \E k \in IterKeys : Seek(k) \/ SeekForPrev(k))
       => IterStatus(iter') = (IF base_status # "OK" THEN base_status
                               ELSE WBWIStatus)]_vars

\* The values of the records of the looked-up key, oldest first, and what
\* the store holds for it (0 for none).
GotOperands ==
  LET Hit(r) == r.tag \in KeyTags /\ r.cf = got.cf /\ r.key = got.key
      hits == SelectSeq(rep, Hit)
  IN [i \in 1..Len(hits) |-> hits[i].value]
GotStoreValue ==
  IF \E i \in 1..Len(base) : base[i] = got.key THEN BaseValue(got.key) ELSE 0

\* C24 -- GetFromBatchAndDB in non-overwrite mode: when the batch lookup
\* gives MergeInProgress and the store returns a value or NotFound, the
\* result is InvalidArgument without a merge operator and otherwise the
\* operator's result over the store's value, or none, and the operands of
\* the batch; when the batch lookup gives NotFound the store's result is
\* returned as it is; a store error other than NotFound is returned and no
\* merge is run.
C24_MergeWithStore ==
  (got.called /\ ~overwrite_key) =>
    /\ (GotFromBatch.kind = "MergeInProgress" /\ ~got.db_fails) =>
         IF got.merge_operator
         THEN /\ got.status = "OK"
              /\ got.value = TimedFullMerge(GotStoreValue, GotOperands)
         ELSE got.status = "InvalidArgument"
    /\ GotFromBatch.kind = "NotFound" =>
         IF got.db_fails THEN got.status = "IOError"
         ELSE IF GotStoreValue # 0
         THEN got.status = "OK" /\ got.value = GotStoreValue
         ELSE got.status = "NotFound"
    /\ (GotFromBatch.kind = "MergeInProgress" /\ got.db_fails) =>
         got.status = "IOError"

\* C24 witness: two merges of a key the store does not hold were looked up
\* with a merge operator, and merged over no store value.
C24_Witness ==
  /\ got.called /\ ~overwrite_key /\ got.merge_operator /\ ~got.db_fails
  /\ GotFromBatch.kind = "MergeInProgress"
  /\ Len(GotOperands) = 2 /\ GotStoreValue = 0
  /\ got.status = "OK" /\ got.value = TimedFullMerge(0, GotOperands)

\* The offset the index entry of the column and key points at.
OffsetOf(recs, idx, cf, k) ==
  LET j == CHOOSE j \in 1..Len(idx) :
             idx[j].column_family = cf /\ KeyAtOffset(recs, idx[j].key_offset) = k
  IN idx[j].offset

\* C25 -- a Merge rejected with NotSupported for a duplicate key has changed
\* the batch as an accepted Merge does: its record is appended to the log
\* and counted, the key's one index entry points at the new record, and the
\* offset of the record it pointed at is appended to obsolete_offsets.
C25_RejectedMergeApplied ==
  [][\A t \in Targets :
       (Merge(t[1], t[2], NextValue) /\ status' = "NotSupported") =>
         /\ rep' = Append(rep, Record("Merge", t[1], t[2], NextValue, GetDataSize(rep)))
         /\ count' = count + 1
         /\ Len(index') = Len(index)
         /\ OffsetOf(rep', index', t[1], t[2]) = GetDataSize(rep)
         /\ obsolete_offsets'
              = Append(obsolete_offsets, OffsetOf(rep, index, t[1], t[2]))]_vars

\* C25 witness: a Merge was rejected, and the one index entry of the batch
\* points at its record while the offset of the first record is obsolete.
C25_Witness ==
  /\ last_op = "Merge" /\ status = "NotSupported"
  /\ Len(rep) = 2 /\ Len(index) = 1
  /\ index[1].offset = rep[2].off
  /\ obsolete_offsets = <<rep[1].off>>

\* C26 -- an iterator that is not valid after a scan ran off the end stays
\* not valid under Next and Prev, and neither moves the store iterator or
\* the batch iterator.  Stated for the forward scan (SeekToFirst, then Next
\* over at least one position until not valid) and for the calls in which a
\* Next or Prev of an underlying iterator that is not valid leaves it so.
C26_NotValidStays ==
  [][((IterNext(0, 0) \/ IterPrev(0, 0)) /\ ScanOver /\ scan.seq # <<>>)
       => /\ ~Valid(iter')
          /\ iter'.base_pos = iter.base_pos
          /\ iter'.delta_pos = iter.delta_pos]_vars

\* The number of iterations of the loop of Collapse, from the i-th record
\* on, that read obsolete_offsets.front() while obs, the sorted offsets not
\* yet met, is empty.
RECURSIVE EmptyFrontReads(_, _, _)
EmptyFrontReads(recs, i, obs) ==
  IF i > Len(recs) THEN 0
  ELSE IF obs = <<>> THEN 1 + EmptyFrontReads(recs, i + 1, obs)
  ELSE IF Head(obs) = recs[i].off THEN EmptyFrontReads(recs, i + 1, Tail(obs))
  ELSE EmptyFrontReads(recs, i + 1, obs)

\* C27 -- a Collapse that does not return false reads the front of
\* obsolete_offsets only while the vector is not empty.
C27_FrontReadOnlyWhenNonEmpty ==
  [][((\E ubDrop \in SUBSET LogOffsets : Collapse(ubDrop)) /\ obsolete_offsets # <<>>)
       => EmptyFrontReads(rep, 1, SortSeq(obsolete_offsets, <)) = 0]_vars

\* A sequence back to front.
Reverse(q) == [i \in 1..Len(q) |-> q[Len(q) + 1 - i]]

\* What a caller reads who calls Prev() from the iterator it until it is
\* not valid: the steps of BaseDeltaIterator::Prev on a valid iterator that
\* moves backward.
RECURSIVE PrevUntilNotValid(_)
PrevUntilNotValid(it) ==
  IF ~Valid(it) THEN <<>> ELSE Shown(it) \o PrevUntilNotValid(Advance(it, 0, 0))

\* C28 -- scan symmetry: when a full forward scan (seek_to_first, next
\* until not valid) has ended, the full reverse scan of the same store and
\* batch (seek_to_last, prev until not valid) reads the same (key, value)
\* pairs in the reverse order.
C28_ScanSymmetry ==
  ScanOver => PrevUntilNotValid(SeekToLastOf(iter)) = Reverse(scan.seq)

\* A forward scan has ended that read the store and the batch, and stepped
\* over a deleted key.
C28_Witness ==
  /\ ScanOver
  /\ Len(scan.seq) >= 2
  /\ \E i \in 1..Len(scan.seq) : scan.seq[i].value < 100
  /\ \E i \in 1..Len(scan.seq) : scan.seq[i].value >= 100
  /\ \E j \in DOMAIN index : Entry(rep, index, j).type = "Delete"
                             /\ index[j].column_family = iter.cf

\* The index entry e refers to a key-bearing record of the log recs, of
\* the entry's column, and to a key slice inside recs that holds the
\* record's user key.
EntryInLog(recs, e) ==
  LET i == RecordAt(recs, e.offset)
  IN /\ i # 0
     /\ recs[i].tag \in KeyTags
     /\ recs[i].cf = e.column_family
     /\ e.key_offset >= kHeader
     /\ e.key_offset + e.key_size <= GetDataSize(recs)
     /\ KeyAtOffset(recs, e.key_offset) = recs[i].key

\* C29 -- in every state that mutations, clear and save-point operations
\* reach (Collapse apart), every index entry's offset is the start of a
\* key-bearing record of the current log, the record's column and user key
\* are the entry's column and the key its key_offset and key_size address,
\* and that key slice lies inside the current log.
C29_IndexEntriesInLog ==
  ~collapsed => \A j \in 1..Len(index) : EntryInLog(rep, index[j])

\* After a rollback that truncated the log, an overwrite-mode index holds
\* an entry that was moved to a later record of its key: its key slice is
\* the first record's, its offset the later record's.
C29_Witness ==
  /\ ~collapsed
  /\ overwrite_key
  /\ last_op = "RollbackToSavePoint"
  /\ status = "OK"
  /\ appended > Len(rep)
  /\ \E j \in 1..Len(index) :
       /\ EntryInLog(rep, index[j])
       /\ index[j].key_offset < index[j].offset

====
